---- MODULE Spec2Model ----
(***************************************************************************)
(* Level 5 MetaAgent (meta_agent.rs) and contributor Leaderboard           *)
(* (leaderboard.rs): trace recording with derived agent transitions,       *)
(* provenance hashing and uniqueness scoring, and per-contributor          *)
(* aggregation with ranking.                                               *)
(*                                                                         *)
(* f64 values (confidence, scores, averages) are modelled as exact         *)
(* rationals [n, d] in lowest terms; Rust strings as TLA+ strings, whose   *)
(* bytes are their characters; Vec as sequences; HashMap as functions      *)
(* whose DOMAIN is the key set; Option<T> as "None" or the value.          *)
(***************************************************************************)
EXTENDS Integers, Sequences, FiniteSets, TLC

\* ------------------------------------------------------------------ bounds
\* events logged over all sessions together
MaxEvents == 2
\* largest reading of the wall clock
MaxClock == 1
\* add_entry calls on the leaderboard
MaxSubs == 3
\* events logged in the session whose transition scores are examined
MaxTrace == 5
\* update_profile calls on a session
MaxUpdates == 3
\* events logged in the session whose insights are examined
MaxInsightTrace == 7

\* ------------------------------------------------------- f64 as rationals
Abs(x) == IF x < 0 THEN -x ELSE x

RECURSIVE Gcd(_, _)
Gcd(a, b) == IF b = 0 THEN a ELSE Gcd(b, a % b)

\* the f64 closest to n/d, idealised as the rational in lowest terms (d > 0)
Rat(n, d) ==
    LET g == Gcd(Abs(n), d)
    IN  [n |-> n \div g, d |-> d \div g]

Lcm(a, b) == (a \div Gcd(a, b)) * b

FromInt(k) == Rat(k, 1)
RatAdd(x, y) ==
    LET l == Lcm(x.d, y.d)
    IN  Rat(x.n * (l \div x.d) + y.n * (l \div y.d), l)
RatMul(x, y) ==
    LET g1 == Gcd(Abs(x.n), y.d)
        g2 == Gcd(Abs(y.n), x.d)
    IN  Rat((x.n \div g1) * (y.n \div g2), (x.d \div g2) * (y.d \div g1))
\* x / k for a count k > 0
RatDivInt(x, k) == RatMul(x, Rat(1, k))
RatLess(x, y) ==
    LET l == Lcm(x.d, y.d)
    IN  x.n * (l \div x.d) < y.n * (l \div y.d)
\* f64::max / f64::min on non-NaN operands
RatMax(x, y) == IF RatLess(x, y) THEN y ELSE x
RatMin(x, y) == IF RatLess(y, x) THEN y ELSE x

\* --------------------------------------------------------------- AgentType
Classification == "AgentType::Classification"
Reasoning == "AgentType::Reasoning"
Action == "AgentType::Action"
Retrieval == "AgentType::Retrieval"
Meta == "AgentType::Meta"
Synthesis == "AgentType::Synthesis"
Validation == "AgentType::Validation"
Translation == "AgentType::Translation"

AgentType ==
    {Classification, Reasoning, Action, Retrieval, Meta, Synthesis, Validation,
     Translation}

\* impl Display for AgentType
Display(agent) ==
    CASE agent = Classification -> "Classification"
      [] agent = Reasoning -> "Reasoning"
      [] agent = Action -> "Action"
      [] agent = Retrieval -> "Retrieval"
      [] agent = Meta -> "Meta"
      [] agent = Synthesis -> "Synthesis"
      [] agent = Validation -> "Validation"
      [] agent = Translation -> "Translation"

\* Option::None
None == "None"

\* HashMap::new()
EmptyMap == <<>>

\* ------------------------------------------------------------------ state
VARIABLES
    clock,                \* the reading Utc::now() returns
    sess,                 \* session handle -> MetaAgent, for the sessions constructed
    emitted,              \* session handle -> <<log>>: the ProvenanceLog emit_provenance
                          \* returned for the session's present trace, <<>> if none
    entries,              \* Leaderboard.entries
    contributor_history,  \* Leaderboard.contributor_history
    submitted,            \* the arguments of every add_entry call so far, in call order
    result,               \* the call and the value the last read-only call returned;
                          \* NoResult once the state it was read from has changed
    profiled              \* session handle -> the trace lengths at the session's
                          \* update_profile calls so far, in call order

vars == <<clock, sess, emitted, entries, contributor_history, submitted, result, profiled>>

\* no read-only call has returned since the last change
NoResult == [op |-> "none"]

\* handles of the sessions a run constructs
SessionIds == {1, 2}

\* ------------------------------------------------------- MetaAgent (values)
\* format!("session_{}", Utc::now().timestamp())
SessionIdAt(now) == "session_" \o ToString(now)

\* MetaAgent::new
NewMetaAgent(contributor_id, backend_used, now) ==
    [trace |-> <<>>,
     transitions |-> <<>>,
     contributor_id |-> contributor_id,
     backend_used |-> backend_used,
     profile |-> [contributor_id |-> contributor_id,
                  preferred_languages |-> <<"en">>,
                  expertise_domains |-> <<>>,
                  reasoning_style |-> "analytical",
                  total_traces |-> 0,
                  avg_trace_depth |-> FromInt(0)],
     session_id |-> SessionIdAt(now),
     current_agent |-> None]

\* MetaAgent::with_profile
WithProfileOf(contributor_id, backend_used, profile, now) ==
    [trace |-> <<>>,
     transitions |-> <<>>,
     contributor_id |-> contributor_id,
     backend_used |-> backend_used,
     profile |-> profile,
     session_id |-> SessionIdAt(now),
     current_agent |-> None]

RECURSIVE SumConfidence(_)
SumConfidence(events) ==
    IF events = <<>> THEN FromInt(0)
    ELSE RatAdd(Head(events).confidence, SumConfidence(Tail(events)))

\* the last min(k, len) elements: iter().rev().take(k)
LastUpTo(seq, k) ==
    IF Len(seq) <= k THEN seq ELSE SubSeq(seq, Len(seq) - k + 1, Len(seq))

\* Take that yields one item more
TakeOneMore(seq, n) == SubSeq(seq, 1, IF n + 1 <= Len(seq) THEN n + 1 ELSE Len(seq))

\* Iterator::take(n): the first n items, all of them when there are fewer
Take(seq, n) == SubSeq(seq, 1, IF n <= Len(seq) THEN n ELSE Len(seq))

\* number of recent events the transition score averages
RecentWindow == 3

\* ComputeTransitionScore averaging the whole trace
ComputeTransitionScoreWholeTrace(m) ==
    IF m.trace = <<>> THEN FromInt(1)
    ELSE RatDivInt(SumConfidence(m.trace), Len(m.trace))

\* ComputeTransitionScore without the division
ComputeTransitionScoreSum(m) ==
    IF m.trace = <<>> THEN FromInt(1)
    ELSE SumConfidence(LastUpTo(m.trace, RecentWindow))

\* MetaAgent::compute_transition_score
ComputeTransitionScore(m) ==
    IF m.trace = <<>> THEN FromInt(1)
    ELSE RatDivInt(SumConfidence(LastUpTo(m.trace, RecentWindow)),
                   IF Len(m.trace) < RecentWindow THEN Len(m.trace) ELSE RecentWindow)

\* TrackTransition that records the two agent kinds the other way round
TrackTransitionSwapped(m, from, to, reason, now) ==
    [m EXCEPT !.transitions =
        Append(@, [from_agent |-> to,
                   to_agent |-> from,
                   timestamp |-> now,
                   reason |-> reason,
                   transition_score |-> ComputeTransitionScore(m)])]

\* MetaAgent::track_transition
TrackTransition(m, from, to, reason, now) ==
    [m EXCEPT !.transitions =
        Append(@, [from_agent |-> from,
                   to_agent |-> to,
                   timestamp |-> now,
                   reason |-> reason,
                   transition_score |-> ComputeTransitionScore(m)])]

\* WithTransition without the test that the agent changed
WithTransitionAlways(m, agent, now) ==
    IF m.current_agent # None
    THEN TrackTransition(m, m.current_agent, agent, "natural_flow", now)
    ELSE m

\* the transition step both logging methods start with
WithTransition(m, agent, now) ==
    IF m.current_agent # None /\ m.current_agent # agent
    THEN TrackTransition(m, m.current_agent, agent, "natural_flow", now)
    ELSE m

\* LogEventOn that puts the new event first
LogEventOnPrepending(m, agent, input, output, language, confidence, now) ==
    LET event == [timestamp |-> now, agent |-> agent, input |-> input,
                  output |-> output, language |-> language,
                  confidence |-> confidence, metadata |-> EmptyMap]
    IN  [WithTransition(m, agent, now) EXCEPT
            !.trace = <<event>> \o @, !.current_agent = agent]

\* LogEventOn that keeps the current agent once one is set
LogEventOnKeepingAgent(m, agent, input, output, language, confidence, now) ==
    LET event == [timestamp |-> now, agent |-> agent, input |-> input,
                  output |-> output, language |-> language,
                  confidence |-> confidence, metadata |-> EmptyMap]
    IN  [WithTransition(m, agent, now) EXCEPT
            !.trace = Append(@, event),
            !.current_agent = IF @ = None THEN agent ELSE @]

\* MetaAgent::log_event, on the value m
LogEventOn(m, agent, input, output, language, confidence, now) ==
    LET event == [timestamp |-> now, agent |-> agent, input |-> input,
                  output |-> output, language |-> language,
                  confidence |-> confidence, metadata |-> EmptyMap]
    IN  [WithTransition(m, agent, now) EXCEPT
            !.trace = Append(@, event), !.current_agent = agent]

\* LogEventWithMetadataOn without the transition step
LogEventWithMetadataOnUntracked(m, agent, input, output, language, confidence, metadata, now) ==
    LET event == [timestamp |-> now, agent |-> agent, input |-> input,
                  output |-> output, language |-> language,
                  confidence |-> confidence, metadata |-> metadata]
    IN  [m EXCEPT !.trace = Append(@, event), !.current_agent = agent]

\* MetaAgent::log_event_with_metadata, on the value m
LogEventWithMetadataOn(m, agent, input, output, language, confidence, metadata, now) ==
    LET event == [timestamp |-> now, agent |-> agent, input |-> input,
                  output |-> output, language |-> language,
                  confidence |-> confidence, metadata |-> metadata]
    IN  [WithTransition(m, agent, now) EXCEPT
            !.trace = Append(@, event), !.current_agent = agent]

\* keys of MetaAgent::count_agent_types
AgentTypesOf(trace) == {trace[i].agent : i \in 1..Len(trace)}

\* ComputeLanguageDistribution that marks each language present with 1
ComputeLanguageDistributionPresence(trace) ==
    [l \in {trace[i].language : i \in 1..Len(trace)} |-> 1]

\* MetaAgent::compute_language_distribution
ComputeLanguageDistribution(trace) ==
    [l \in {trace[i].language : i \in 1..Len(trace)} |->
        Cardinality({i \in 1..Len(trace) : trace[i].language = l})]

\* MetaAgent::count_agent_types
CountAgentTypes(trace) ==
    [a \in AgentTypesOf(trace) |->
        Cardinality({i \in 1..Len(trace) : trace[i].agent = a})]

\* the orders in which a HashMap of these keys may be iterated
IterationOrders(keys) ==
    {order \in [1..Cardinality(keys) -> keys] :
        \A i, j \in 1..Cardinality(keys) : order[i] = order[j] => i = j}

\* "key: value" of the entries from position i on, joined by ", "
RECURSIVE DebugEntries(_, _, _)
DebugEntries(counts, order, i) ==
    IF i > Len(order) THEN ""
    ELSE Display(order[i]) \o ": " \o ToString(counts[order[i]])
         \o (IF i < Len(order) THEN ", " ELSE "")
         \o DebugEntries(counts, order, i + 1)

\* {:?} of a HashMap<AgentType, usize> iterated in the given order
DebugOfCounts(counts, order) == "{" \o DebugEntries(counts, order, 1) \o "}"

\* MetaAgent::generate_summary
GenerateSummary(m, order) ==
    "Session " \o m.session_id
    \o " with " \o ToString(Len(m.trace))
    \o " reasoning steps across "
    \o ToString(Cardinality({m.trace[i].language : i \in 1..Len(m.trace)}))
    \o " languages. Agent distribution: "
    \o DebugOfCounts(CountAgentTypes(m.trace), order)
    \o ". Transitions: " \o ToString(Len(m.transitions))

\* ExtractKeyInsights counting confidences of 0.8 and more
ExtractKeyInsightsFromThreshold(m) ==
    LET high_conf == Cardinality({i \in 1..Len(m.trace) :
                                    ~RatLess(m.trace[i].confidence, Rat(8, 10))})
        languages == Cardinality({m.trace[i].language : i \in 1..Len(m.trace)})
    IN  (IF high_conf > 0
         THEN <<ToString(high_conf) \o " high-confidence reasoning steps">>
         ELSE <<>>)
        \o (IF languages > 1
            THEN <<"Multilingual reasoning across " \o ToString(languages) \o " languages">>
            ELSE <<>>)
        \o (IF Len(m.transitions) > 5
            THEN <<"Complex reasoning with " \o ToString(Len(m.transitions))
                   \o " agent transitions">>
            ELSE <<>>)

\* MetaAgent::extract_key_insights
ExtractKeyInsights(m) ==
    LET high_conf == Cardinality({i \in 1..Len(m.trace) :
                                    RatLess(Rat(8, 10), m.trace[i].confidence)})
        languages == Cardinality({m.trace[i].language : i \in 1..Len(m.trace)})
    IN  (IF high_conf > 0
         THEN <<ToString(high_conf) \o " high-confidence reasoning steps">>
         ELSE <<>>)
        \o (IF languages > 1
            THEN <<"Multilingual reasoning across " \o ToString(languages) \o " languages">>
            ELSE <<>>)
        \o (IF Len(m.transitions) > 5
            THEN <<"Complex reasoning with " \o ToString(Len(m.transitions))
                   \o " agent transitions">>
            ELSE <<>>)

\* TotalChars that counts the inputs only
RECURSIVE TotalCharsInputsOnly(_)
TotalCharsInputsOnly(trace) ==
    IF trace = <<>> THEN 0
    ELSE Len(Head(trace).input) + TotalCharsInputsOnly(Tail(trace))

\* total_chars of fold_memory: the sum of input.len() + output.len()
RECURSIVE TotalChars(_)
TotalChars(trace) ==
    IF trace = <<>> THEN 0
    ELSE Len(Head(trace).input) + Len(Head(trace).output) + TotalChars(Tail(trace))

\* MetaAgent::fold_memory, the agent counts iterated in the given order
FoldMemoryOf(m, order) ==
    LET total_chars == TotalChars(m.trace)
        summary == GenerateSummary(m, order)
    IN  [session_id |-> m.session_id,
         folded_trace |-> m.trace,
         summary |-> summary,
         compression_ratio |->
            IF total_chars > 0 THEN Rat(Len(summary), total_chars) ELSE FromInt(1),
         key_insights |-> ExtractKeyInsights(m),
         language_distribution |-> ComputeLanguageDistribution(m.trace)]

\* one insertion of the stable sort by count, larger counts first
RECURSIVE InsertByCount(_, _, _)
InsertByCount(sorted, lang, dist) ==
    IF sorted = <<>> THEN <<lang>>
    ELSE IF dist[lang] > dist[Head(sorted)] THEN <<lang>> \o sorted
    ELSE <<Head(sorted)>> \o InsertByCount(Tail(sorted), lang, dist)

\* langs.sort_by(|a, b| b.1.cmp(&a.1)) over the pairs in iteration order
RECURSIVE SortByCount(_, _)
SortByCount(order, dist) ==
    IF order = <<>> THEN <<>>
    ELSE InsertByCount(SortByCount(SubSeq(order, 1, Len(order) - 1), dist),
                       order[Len(order)], dist)

\* number of languages update_profile keeps
PreferredCount == 3

\* UpdateProfileOn keeping the languages of the fewest events
UpdateProfileOnFewestFirst(m, order) ==
    LET total_traces == m.profile.total_traces + 1
        new_avg == RatDivInt(RatAdd(RatMul(m.profile.avg_trace_depth,
                                           FromInt(total_traces - 1)),
                                    FromInt(Len(m.trace))),
                             total_traces)
        langs == SortByCount(order, ComputeLanguageDistribution(m.trace))
    IN  [m EXCEPT !.profile.total_traces = total_traces,
                  !.profile.avg_trace_depth = new_avg,
                  !.profile.preferred_languages =
                      Take([i \in 1..Len(langs) |-> langs[Len(langs) + 1 - i]],
                           PreferredCount)]

\* UpdateProfileOn averaging the old average with the present depth
UpdateProfileOnHalving(m, order) ==
    LET total_traces == m.profile.total_traces + 1
        new_avg == RatDivInt(RatAdd(m.profile.avg_trace_depth, FromInt(Len(m.trace))), 2)
        langs == SortByCount(order, ComputeLanguageDistribution(m.trace))
    IN  [m EXCEPT !.profile.total_traces = total_traces,
                  !.profile.avg_trace_depth = new_avg,
                  !.profile.preferred_languages = Take(langs, PreferredCount)]

\* MetaAgent::update_profile, the language counts iterated in the given order
UpdateProfileOn(m, order) ==
    LET total_traces == m.profile.total_traces + 1
        new_avg == RatDivInt(RatAdd(RatMul(m.profile.avg_trace_depth,
                                           FromInt(total_traces - 1)),
                                    FromInt(Len(m.trace))),
                             total_traces)
        langs == SortByCount(order, ComputeLanguageDistribution(m.trace))
    IN  [m EXCEPT !.profile.total_traces = total_traces,
                  !.profile.avg_trace_depth = new_avg,
                  !.profile.preferred_languages = Take(langs, PreferredCount)]

\* EventBytes with the event's timestamp hashed too
EventBytesWithTimestamp(e) ==
    e.input \o e.output \o e.language \o Display(e.agent) \o ToString(e.timestamp)

\* EventBytes with the update call for the language left out
EventBytesWithoutLanguage(e) == e.input \o e.output \o Display(e.agent)

\* the bytes one event feeds to the hasher, in the order of the four update calls
EventBytes(e) == e.input \o e.output \o e.language \o Display(e.agent)

\* everything the hasher was fed when finalize is called
RECURSIVE HashedBytes(_)
HashedBytes(trace) ==
    IF trace = <<>> THEN ""
    ELSE EventBytes(Head(trace)) \o HashedBytes(Tail(trace))

\* format!("{:x}", Sha256(bytes)): the digest as an ideal (collision-free) hash,
\* a different string for every different byte stream
Sha256Hex(bytes) == "sha256(" \o bytes \o ")"

\* number of agent kinds and the language normaliser of the uniqueness score
AgentKinds == 8
LanguageNorm == 5

\* ComputeUniquenessScore without the division by 3.0
ComputeUniquenessScoreSum(m) ==
    LET agent_diversity == Rat(Cardinality(AgentTypesOf(m.trace)), AgentKinds)
        language_diversity ==
            Rat(Cardinality(DOMAIN ComputeLanguageDistribution(m.trace)), LanguageNorm)
        transition_complexity ==
            IF m.trace = <<>> THEN FromInt(1)
            ELSE RatMin(Rat(Len(m.transitions), Len(m.trace)), FromInt(1))
    IN  RatAdd(RatAdd(agent_diversity, language_diversity), transition_complexity)

\* MetaAgent::compute_uniqueness_score.  For an empty trace 0.0/0.0 is NaN and
\* NaN.min(1.0) is 1.0; a positive count over 0.0 is +inf, and min gives 1.0 too.
ComputeUniquenessScore(m) ==
    LET agent_diversity == Rat(Cardinality(AgentTypesOf(m.trace)), AgentKinds)
        language_diversity ==
            Rat(Cardinality(DOMAIN ComputeLanguageDistribution(m.trace)), LanguageNorm)
        transition_complexity ==
            IF m.trace = <<>> THEN FromInt(1)
            ELSE RatMin(Rat(Len(m.transitions), Len(m.trace)), FromInt(1))
    IN  RatDivInt(RatAdd(RatAdd(agent_diversity, language_diversity),
                         transition_complexity), 3)

\* EmitProvenanceOf whose depth counts the transitions
EmitProvenanceOfCountingTransitions(m, now) ==
    [trace_hash |-> Sha256Hex(HashedBytes(m.trace)),
     agent_sequence |-> [i \in 1..Len(m.trace) |-> m.trace[i].agent],
     contributor_id |-> m.contributor_id,
     backend_used |-> m.backend_used,
     timestamp |-> now,
     trace_depth |-> Len(m.transitions),
     uniqueness_score |-> ComputeUniquenessScore(m),
     transitions |-> m.transitions]

\* MetaAgent::emit_provenance
EmitProvenanceOf(m, now) ==
    [trace_hash |-> Sha256Hex(HashedBytes(m.trace)),
     agent_sequence |-> [i \in 1..Len(m.trace) |-> m.trace[i].agent],
     contributor_id |-> m.contributor_id,
     backend_used |-> m.backend_used,
     timestamp |-> now,
     trace_depth |-> Len(m.trace),
     uniqueness_score |-> ComputeUniquenessScore(m),
     transitions |-> m.transitions]

\* ------------------------------------------------------- session operations
\* arguments of the constructor calls, as in test_provenance_uniqueness
ContributorOf(s) == "user" \o ToString(s)
BackendOf(s) == "backend" \o ToString(s)

\* the reference log_event call and the values a call may take instead
ReferenceCall ==
    [agent |-> Reasoning, input |-> "a", output |-> "c", language |-> "en",
     confidence |-> Rat(9, 10), metadata |-> EmptyMap]
AgentInputs == {Reasoning, Meta}
InputInputs == {"a", "ac"}
OutputInputs == {"c", "cc"}
LanguageInputs == {"en", "id"}
ConfidenceInputs == {Rat(9, 10), Rat(1, 2)}
MetadataInputs == {EmptyMap, [source |-> "arxiv"]}

Fields == {"agent", "input", "output", "language", "confidence", "metadata"}

\* the calls explored: those that differ from the reference call in at most one argument
CallInputs ==
    {c \in [agent : AgentInputs, input : InputInputs, output : OutputInputs,
            language : LanguageInputs, confidence : ConfidenceInputs,
            metadata : MetadataInputs] :
        Cardinality({f \in Fields : c[f] # ReferenceCall[f]}) <= 1}

RECURSIVE TotalEvents(_)
TotalEvents(S) ==
    IF S = {} THEN 0
    ELSE LET s == CHOOSE x \in S : TRUE
         IN  Len(sess[s].trace) + TotalEvents(S \ {s})

\* the calls explored: at most MaxEvents events over all sessions
WithinEvents == TotalEvents(DOMAIN sess) < MaxEvents

\* the wall clock advances
Tick ==
    /\ clock < MaxClock
    /\ clock' = clock + 1
    /\ UNCHANGED <<sess, emitted, entries, contributor_history, submitted, result, profiled>>

\* let mut meta = MetaAgent::new(contributor_id, backend_used)
New(s) ==
    /\ s \notin DOMAIN sess
    /\ sess' = sess @@ (s :> NewMetaAgent(ContributorOf(s), BackendOf(s), clock))
    /\ UNCHANGED <<clock, emitted, entries, contributor_history, submitted, result, profiled>>

\* meta.log_event(agent, input, output, language, confidence)
LogEvent(s, c) ==
    /\ s \in DOMAIN sess
    /\ sess' = [sess EXCEPT ![s] =
          LogEventOn(@, c.agent, c.input, c.output, c.language, c.confidence, clock)]
    /\ emitted' = [emitted EXCEPT ![s] = <<>>]
    /\ result' = NoResult
    /\ UNCHANGED <<clock, entries, contributor_history, submitted, profiled>>

\* meta.log_event_with_metadata(agent, input, output, language, confidence, metadata)
LogEventWithMetadata(s, c) ==
    /\ s \in DOMAIN sess
    /\ sess' = [sess EXCEPT ![s] =
          LogEventWithMetadataOn(@, c.agent, c.input, c.output, c.language,
                                 c.confidence, c.metadata, clock)]
    /\ emitted' = [emitted EXCEPT ![s] = <<>>]
    /\ result' = NoResult
    /\ UNCHANGED <<clock, entries, contributor_history, submitted, profiled>>

\* let prov = meta.emit_provenance()
EmitProvenance(s) ==
    /\ s \in DOMAIN sess
    /\ emitted' = [emitted EXCEPT ![s] = <<EmitProvenanceOf(sess[s], clock)>>]
    /\ UNCHANGED <<clock, sess, entries, contributor_history, submitted, result, profiled>>

\* meta.track_transition(from, to, reason)
CallTrackTransition(s, from, to, reason) ==
    /\ s \in DOMAIN sess
    /\ sess' = [sess EXCEPT ![s] = TrackTransition(@, from, to, reason, clock)]
    /\ emitted' = [emitted EXCEPT ![s] = <<>>]
    /\ result' = NoResult
    /\ UNCHANGED <<clock, entries, contributor_history, submitted, profiled>>

\* let mut meta = MetaAgent::with_profile(contributor_id, backend_used, profile)
WithProfile(s, profile) ==
    /\ s \notin DOMAIN sess
    /\ sess' = sess @@ (s :> WithProfileOf(ContributorOf(s), BackendOf(s), profile, clock))
    /\ UNCHANGED <<clock, emitted, entries, contributor_history, submitted, result, profiled>>

\* meta.update_profile()
UpdateProfile(s, order) ==
    /\ s \in DOMAIN sess
    /\ order \in IterationOrders(DOMAIN ComputeLanguageDistribution(sess[s].trace))
    /\ sess' = [sess EXCEPT ![s] = UpdateProfileOn(@, order)]
    /\ profiled' = [profiled EXCEPT ![s] = Append(@, Len(sess[s].trace))]
    /\ result' = NoResult
    /\ UNCHANGED <<clock, emitted, entries, contributor_history, submitted>>

\* FoldMemory that moves the trace out of the session
FoldMemoryDraining(s, order) ==
    /\ s \in DOMAIN sess
    /\ order \in IterationOrders(AgentTypesOf(sess[s].trace))
    /\ result' = [op |-> "fold_memory", session |-> s,
                  value |-> FoldMemoryOf(sess[s], order)]
    /\ sess' = [sess EXCEPT ![s].trace = <<>>]
    /\ UNCHANGED <<clock, emitted, entries, contributor_history, submitted, profiled>>

\* let folded = meta.fold_memory()
FoldMemory(s, order) ==
    /\ s \in DOMAIN sess
    /\ order \in IterationOrders(AgentTypesOf(sess[s].trace))
    /\ result' = [op |-> "fold_memory", session |-> s,
                  value |-> FoldMemoryOf(sess[s], order)]
    /\ UNCHANGED <<clock, sess, emitted, entries, contributor_history, submitted, profiled>>

\* ------------------------------------------------------------ Leaderboard
TraceDepth == "RankingCriteria::TraceDepth"
UniquenessScore == "RankingCriteria::UniquenessScore"
TotalSubmissions == "RankingCriteria::TotalSubmissions"
AvgTraceDepth == "RankingCriteria::AvgTraceDepth"
Combined == "RankingCriteria::Combined"
RankingCriteria == {TraceDepth, UniquenessScore, TotalSubmissions, AvgTraceDepth, Combined}

\* (n as f64).ln(), to four decimals, for the submission counts a run reaches
Ln(n) ==
    CASE n = 1 -> Rat(0, 1)
      [] n = 2 -> Rat(6931, 10000)
      [] n = 3 -> Rat(10986, 10000)
      [] n = 4 -> Rat(13863, 10000)
      [] n = 5 -> Rat(16094, 10000)
      [] n = 6 -> Rat(17918, 10000)

\* Leaderboard::compute_combined_score
ComputeCombinedScore(stats) ==
    LET depth_score == Rat(stats.trace_depth, 100)
        uniqueness_score == stats.uniqueness_score
        submission_score == RatDivInt(Ln(stats.total_submissions), 5)
        avg_depth_score == RatDivInt(stats.avg_trace_depth, 50)
    IN  RatAdd(RatAdd(RatMul(Rat(3, 10), depth_score),
                      RatMul(Rat(4, 10), uniqueness_score)),
               RatAdd(RatMul(Rat(15, 100), submission_score),
                      RatMul(Rat(15, 100), avg_depth_score)))

\* SortsBefore whose depth comparator has no then_with on the uniqueness
SortsBeforeDepthOnly(criteria, a, b) ==
    CASE criteria = TraceDepth -> a.trace_depth > b.trace_depth
      [] criteria = UniquenessScore ->
            \/ RatLess(b.uniqueness_score, a.uniqueness_score)
            \/ /\ a.uniqueness_score = b.uniqueness_score
               /\ a.trace_depth > b.trace_depth
      [] criteria = TotalSubmissions -> a.total_submissions > b.total_submissions
      [] criteria = AvgTraceDepth -> RatLess(b.avg_trace_depth, a.avg_trace_depth)
      [] criteria = Combined ->
            RatLess(ComputeCombinedScore(b), ComputeCombinedScore(a))

\* SortsBefore whose uniqueness comparator orders a.cmp(b): ascending
SortsBeforeUniquenessAscending(criteria, a, b) ==
    CASE criteria = TraceDepth ->
            \/ a.trace_depth > b.trace_depth
            \/ /\ a.trace_depth = b.trace_depth
               /\ RatLess(b.uniqueness_score, a.uniqueness_score)
      [] criteria = UniquenessScore ->
            \/ RatLess(a.uniqueness_score, b.uniqueness_score)
            \/ /\ a.uniqueness_score = b.uniqueness_score
               /\ a.trace_depth > b.trace_depth
      [] criteria = TotalSubmissions -> a.total_submissions > b.total_submissions
      [] criteria = AvgTraceDepth -> RatLess(b.avg_trace_depth, a.avg_trace_depth)
      [] criteria = Combined ->
            RatLess(ComputeCombinedScore(b), ComputeCombinedScore(a))

\* the comparator of each rank_* method says Less: a sorts before b
SortsBefore(criteria, a, b) ==
    CASE criteria = TraceDepth ->
            \/ a.trace_depth > b.trace_depth
            \/ /\ a.trace_depth = b.trace_depth
               /\ RatLess(b.uniqueness_score, a.uniqueness_score)
      [] criteria = UniquenessScore ->
            \/ RatLess(b.uniqueness_score, a.uniqueness_score)
            \/ /\ a.uniqueness_score = b.uniqueness_score
               /\ a.trace_depth > b.trace_depth
      [] criteria = TotalSubmissions -> a.total_submissions > b.total_submissions
      [] criteria = AvgTraceDepth -> RatLess(b.avg_trace_depth, a.avg_trace_depth)
      [] criteria = Combined ->
            RatLess(ComputeCombinedScore(b), ComputeCombinedScore(a))

\* one insertion of the stable sort: x goes before the first element it sorts before
RECURSIVE InsertSorted(_, _, _)
InsertSorted(sorted, x, criteria) ==
    IF sorted = <<>> THEN <<x>>
    ELSE IF SortsBefore(criteria, x, Head(sorted)) THEN <<x>> \o sorted
    ELSE <<Head(sorted)>> \o InsertSorted(Tail(sorted), x, criteria)

\* slice::sort_by (stable) over the entries in stored order
RECURSIVE SortBy(_, _)
SortBy(seq, criteria) ==
    IF seq = <<>> THEN <<>>
    ELSE InsertSorted(SortBy(SubSeq(seq, 1, Len(seq) - 1), criteria),
                      seq[Len(seq)], criteria)

\* rank_by_depth, rank_by_uniqueness, rank_by_submissions, rank_by_avg_depth,
\* rank_combined, chosen by the match on the criteria
Ranked(es, criteria) == SortBy(es, criteria)

\* FindEntry that looks at the newest entry only
FindEntryLastOnly(es, contributor_id) ==
    IF es # <<>> /\ es[Len(es)].contributor_id = contributor_id THEN Len(es) ELSE 0

\* iter().position(|e| e.contributor_id == contributor_id): 0 when there is none
FindEntry(es, contributor_id) ==
    IF \E j \in 1..Len(es) : es[j].contributor_id = contributor_id
    THEN CHOOSE j \in 1..Len(es) :
            /\ es[j].contributor_id = contributor_id
            /\ \A k \in 1..(j - 1) : es[k].contributor_id # contributor_id
    ELSE 0

\* the loop of update_ranks, from position i of the ranking on
RECURSIVE AssignRanks(_, _, _)
AssignRanks(es, ranked, i) ==
    IF i > Len(ranked) THEN es
    ELSE LET j == FindEntry(es, ranked[i].contributor_id)
         IN  AssignRanks(IF j = 0 THEN es ELSE [es EXCEPT ![j].rank = i], ranked, i + 1)

\* Leaderboard::total_contributors
TotalContributors == Len(entries)

\* UpdateRanksOn that always ranks by trace depth
UpdateRanksOnByDepth(es, criteria) == AssignRanks(es, Ranked(es, TraceDepth), 1)

\* Leaderboard::update_ranks, on the entries es
UpdateRanksOn(es, criteria) == AssignRanks(es, Ranked(es, criteria), 1)

RECURSIVE SumTraceDepth(_)
SumTraceDepth(history) ==
    IF history = <<>> THEN 0
    ELSE Head(history).trace_depth + SumTraceDepth(Tail(history))

\* MeanTraceDepth read before the new record is pushed to the history
MeanTraceDepthBeforePush(history) ==
    Rat(SumTraceDepth(SubSeq(history, 1, Len(history) - 1)), Len(history) - 1)

\* the average add_entry recomputes from the contributor's history
MeanTraceDepth(history) == Rat(SumTraceDepth(history), Len(history))

\* the loop that pushes each language languages_used does not contain yet
RECURSIVE PushUnseen(_, _)
PushUnseen(languages_used, languages) ==
    IF languages = <<>> THEN languages_used
    ELSE PushUnseen(
            IF \E k \in 1..Len(languages_used) : languages_used[k] = Head(languages)
            THEN languages_used
            ELSE Append(languages_used, Head(languages)),
            Tail(languages))

\* UpdateExisting with the depth overwritten by the new submission's
UpdateExistingOverwriteDepth(existing, provenance, languages, history) ==
    [existing EXCEPT
        !.total_submissions = @ + 1,
        !.trace_depth = provenance.trace_depth,
        !.provenance_hash = provenance.trace_hash,
        !.backend_used = provenance.backend_used,
        !.last_updated = provenance.timestamp,
        !.uniqueness_score = RatMax(@, provenance.uniqueness_score),
        !.avg_trace_depth = MeanTraceDepth(history),
        !.languages_used = PushUnseen(@, languages)]

\* UpdateExisting with hash, backend and timestamp taken only from a newer submission
UpdateExistingNewestStamp(existing, provenance, languages, history) ==
    LET newer == provenance.timestamp >= existing.last_updated
    IN  [existing EXCEPT
            !.total_submissions = @ + 1,
            !.trace_depth = IF @ >= provenance.trace_depth THEN @ ELSE provenance.trace_depth,
            !.provenance_hash = IF newer THEN provenance.trace_hash ELSE @,
            !.backend_used = IF newer THEN provenance.backend_used ELSE @,
            !.last_updated = IF newer THEN provenance.timestamp ELSE @,
            !.uniqueness_score = RatMax(@, provenance.uniqueness_score),
            !.avg_trace_depth = MeanTraceDepth(history),
            !.languages_used = PushUnseen(@, languages)]

\* add_entry, the branch that updates the existing entry
UpdateExisting(existing, provenance, languages, history) ==
    [existing EXCEPT
        !.total_submissions = @ + 1,
        !.trace_depth = IF @ >= provenance.trace_depth THEN @ ELSE provenance.trace_depth,
        !.provenance_hash = provenance.trace_hash,
        !.backend_used = provenance.backend_used,
        !.last_updated = provenance.timestamp,
        !.uniqueness_score = RatMax(@, provenance.uniqueness_score),
        !.avg_trace_depth = MeanTraceDepth(history),
        !.languages_used = PushUnseen(@, languages)]

\* add_entry, the branch that creates the entry
NewStats(provenance, languages) ==
    [contributor_id |-> provenance.contributor_id,
     trace_depth |-> provenance.trace_depth,
     provenance_hash |-> provenance.trace_hash,
     backend_used |-> provenance.backend_used,
     last_updated |-> provenance.timestamp,
     uniqueness_score |-> provenance.uniqueness_score,
     total_submissions |-> 1,
     avg_trace_depth |-> FromInt(provenance.trace_depth),
     languages_used |-> languages,
     rank |-> 0]

\* PushHistory that keeps the newest record only
PushHistoryReplacing(h, provenance) ==
    IF provenance.contributor_id \in DOMAIN h
    THEN [h EXCEPT ![provenance.contributor_id] = <<provenance>>]
    ELSE h @@ (provenance.contributor_id :> <<provenance>>)

\* contributor_history.entry(id).or_insert_with(Vec::new).push(provenance)
PushHistory(h, provenance) ==
    IF provenance.contributor_id \in DOMAIN h
    THEN [h EXCEPT ![provenance.contributor_id] = Append(@, provenance)]
    ELSE h @@ (provenance.contributor_id :> <<provenance>>)

\* Upserted that updates the first entry, whoever it belongs to
UpsertedIntoFirst(es, h, provenance, languages) ==
    IF es # <<>>
    THEN [es EXCEPT ![1] =
            UpdateExisting(@, provenance, languages, h[provenance.contributor_id])]
    ELSE Append(es, NewStats(provenance, languages))

\* the entries after add_entry, before the ranks are recomputed
Upserted(es, h, provenance, languages) ==
    LET j == FindEntry(es, provenance.contributor_id)
    IN  IF j # 0
        THEN [es EXCEPT ![j] =
                UpdateExisting(@, provenance, languages, h[provenance.contributor_id])]
        ELSE Append(es, NewStats(provenance, languages))

\* leaderboard.add_entry(provenance, languages)
AddEntry(provenance, languages) ==
    /\ Len(submitted) < MaxSubs
    /\ contributor_history' = PushHistory(contributor_history, provenance)
    /\ entries' = UpdateRanksOn(
          Upserted(entries, contributor_history', provenance, languages), Combined)
    /\ submitted' = Append(submitted, [provenance |-> provenance, languages |-> languages])
    /\ result' = NoResult
    /\ UNCHANGED <<clock, sess, emitted, profiled>>

\* leaderboard.update_ranks(criteria)
UpdateRanks(criteria) ==
    /\ entries' = UpdateRanksOn(entries, criteria)
    /\ result' = NoResult
    /\ UNCHANGED <<clock, sess, emitted, contributor_history, submitted, profiled>>

\* let ranked = leaderboard.rank_by_depth()
RankByDepth ==
    /\ result' = [op |-> "rank_by_depth", value |-> Ranked(entries, TraceDepth)]
    /\ UNCHANGED <<clock, sess, emitted, entries, contributor_history, submitted, profiled>>

\* let ranked = leaderboard.rank_by_uniqueness()
RankByUniqueness ==
    /\ result' = [op |-> "rank_by_uniqueness", value |-> Ranked(entries, UniquenessScore)]
    /\ UNCHANGED <<clock, sess, emitted, entries, contributor_history, submitted, profiled>>

\* GetTopN that also stores the ranks of its ranking
GetTopNRanking(n, criteria) ==
    /\ result' = [op |-> "get_top_n", n |-> n, criteria |-> criteria,
                  value |-> Take(Ranked(entries, criteria), n)]
    /\ entries' = UpdateRanksOn(entries, criteria)
    /\ UNCHANGED <<clock, sess, emitted, contributor_history, submitted, profiled>>

\* let top = leaderboard.get_top_n(n, criteria)
GetTopN(n, criteria) ==
    /\ result' = [op |-> "get_top_n", n |-> n, criteria |-> criteria,
                  value |-> Take(Ranked(entries, criteria), n)]
    /\ UNCHANGED <<clock, sess, emitted, entries, contributor_history, submitted, profiled>>

\* HashMap::get: Some(value) is <<value>>, None is <<>>
MapGet(map, key) == IF key \in DOMAIN map THEN <<map[key]>> ELSE <<>>

\* let history = leaderboard.get_contributor_history(contributor_id)
GetContributorHistory(contributor_id) ==
    /\ result' = [op |-> "get_contributor_history", contributor_id |-> contributor_id,
                  value |-> MapGet(contributor_history, contributor_id)]
    /\ UNCHANGED <<clock, sess, emitted, entries, contributor_history, submitted, profiled>>

\* serde_json of a string, of an f64 and of a Vec<String>.  An f64 is written as
\* its exact fraction n/d: the decimal digits serde prints are not modelled.
JsonString(s) == "\"" \o s \o "\""
JsonF64(x) == ToString(x.n) \o "/" \o ToString(x.d)
RECURSIVE JsonStrings(_)
JsonStrings(seq) ==
    IF seq = <<>> THEN ""
    ELSE JsonString(Head(seq)) \o (IF Len(seq) > 1 THEN "," ELSE "")
         \o JsonStrings(Tail(seq))

\* serde_json of a ContributorStats: the fields in declaration order, the
\* timestamp as its seconds
JsonOfStats(e) ==
    "{" \o "\"contributor_id\":" \o JsonString(e.contributor_id)
    \o ",\"trace_depth\":" \o ToString(e.trace_depth)
    \o ",\"provenance_hash\":" \o JsonString(e.provenance_hash)
    \o ",\"backend_used\":" \o JsonString(e.backend_used)
    \o ",\"last_updated\":" \o ToString(e.last_updated)
    \o ",\"uniqueness_score\":" \o JsonF64(e.uniqueness_score)
    \o ",\"total_submissions\":" \o ToString(e.total_submissions)
    \o ",\"avg_trace_depth\":" \o JsonF64(e.avg_trace_depth)
    \o ",\"languages_used\":[" \o JsonStrings(e.languages_used) \o "]"
    \o ",\"rank\":" \o ToString(e.rank) \o "}"

RECURSIVE JsonOfEntries(_)
JsonOfEntries(seq) ==
    IF seq = <<>> THEN ""
    ELSE JsonOfStats(Head(seq)) \o (IF Len(seq) > 1 THEN "," ELSE "")
         \o JsonOfEntries(Tail(seq))

\* let json = leaderboard.export_json(criteria): Ok(text), the text without the
\* line breaks and indentation of to_string_pretty
ExportJson(criteria) ==
    /\ result' = [op |-> "export_json", criteria |-> criteria,
                  value |-> "[" \o JsonOfEntries(Ranked(entries, criteria)) \o "]"]
    /\ UNCHANGED <<clock, sess, emitted, entries, contributor_history, submitted, profiled>>

\* ---------------------------------------------------- leaderboard inputs
\* log_event calls replayed on m, all at the clock reading now
RECURSIVE Replay(_, _, _)
Replay(m, calls, now) ==
    IF calls = <<>> THEN m
    ELSE Replay(LogEventOn(m, Head(calls).agent, Head(calls).input, Head(calls).output,
                           Head(calls).language, Head(calls).confidence, now),
                Tail(calls), now)

\* the traces submissions come from: one step; two agents in two languages; three
\* steps of one agent in one language
SampleTraces ==
    {<<ReferenceCall>>,
     <<ReferenceCall, [ReferenceCall EXCEPT !.agent = Meta, !.language = "id"]>>,
     <<ReferenceCall, ReferenceCall, ReferenceCall>>}

ContributorInputs == {"alice", "bob"}
\* backend and emission time of a submission; the later call may carry the older time
StampInputs == {<<"backend1", 2>>, <<"backend2", 1>>}

\* the provenance logs emit_provenance returns for those sessions
ProvenanceInputs ==
    {EmitProvenanceOf(Replay(NewMetaAgent(c, st[1], 0), t, 0), st[2]) :
        c \in ContributorInputs, st \in StampInputs, t \in SampleTraces}

\* the languages of a log's trace, as a caller lists them
LanguagesOf(provenance) ==
    IF Len(provenance.agent_sequence) = 2 THEN <<"en", "id">> ELSE <<"en">>

\* language lists given to add_entry: repeated tags, tags in either order, no tag
LanguageListInputs ==
    {<<>>, <<"en">>, <<"en", "en">>, <<"id", "en", "id">>, <<"zh", "id">>}

Init ==
    /\ clock = 0
    /\ sess = <<>>
    /\ emitted = [s \in SessionIds |-> <<>>]
    /\ entries = <<>>
    /\ contributor_history = <<>>
    /\ submitted = <<>>
    /\ result = NoResult
    /\ profiled = [s \in SessionIds |-> <<>>]

Next ==
    \/ Tick
    \/ \E s \in SessionIds : New(s)
    \/ \E s \in SessionIds, c \in {x \in CallInputs : x.metadata = EmptyMap} :
          WithinEvents /\ LogEvent(s, c)
    \/ \E s \in SessionIds, c \in CallInputs : WithinEvents /\ LogEventWithMetadata(s, c)
    \/ \E s \in SessionIds : EmitProvenance(s)

\* two sessions side by side
Spec == Init /\ [][Next]_vars

NextSession ==
    \/ Tick
    \/ New(1)
    \/ \E c \in {x \in CallInputs : x.metadata = EmptyMap} : WithinEvents /\ LogEvent(1, c)
    \/ \E c \in CallInputs : WithinEvents /\ LogEventWithMetadata(1, c)
    \/ EmitProvenance(1)

\* one session on its own
SpecSession == Init /\ [][NextSession]_vars

NextBoard ==
    \/ \E p \in ProvenanceInputs : AddEntry(p, LanguagesOf(p))
    \/ \E criteria \in RankingCriteria : UpdateRanks(criteria)

\* the leaderboard fed with emitted provenance logs
SpecBoard == Init /\ [][NextBoard]_vars

NextLanguages ==
    \E p \in {q \in ProvenanceInputs : q.trace_depth = 1 /\ q.timestamp = 1},
       languages \in LanguageListInputs : AddEntry(p, languages)

\* the leaderboard fed with arbitrary language lists
SpecLanguages == Init /\ [][NextLanguages]_vars

\* submissions to a leaderboard of three contributors: the two-agent trace and the
\* longer one-agent trace, so that depth, uniqueness and combined score disagree
RankContributorInputs == {"alice", "bob", "carol"}
RankTraces == {t \in SampleTraces : Len(t) >= 2}
RankProvenanceInputs ==
    {EmitProvenanceOf(Replay(NewMetaAgent(c, "backend1", 0), t, 0), 1) :
        c \in RankContributorInputs, t \in RankTraces}

NextRanks ==
    \/ \E p \in RankProvenanceInputs : AddEntry(p, LanguagesOf(p))
    \/ \E criteria \in RankingCriteria : UpdateRanks(criteria)

\* three contributors, ranks recomputed under every criterion
SpecRanks == Init /\ [][NextRanks]_vars

\* sizes asked of get_top_n: none, fewer than, as many as and more than the entries
TopInputs == {0, 2, 5}

NextQuery ==
    \/ \E p \in RankProvenanceInputs : AddEntry(p, LanguagesOf(p))
    \/ RankByDepth
    \/ RankByUniqueness
    \/ \E n \in TopInputs, criteria \in RankingCriteria : GetTopN(n, criteria)
    \/ \E c \in RankContributorInputs \cup {"dave"} : GetContributorHistory(c)

\* three contributors, the leaderboard read between the submissions
SpecQuery == Init /\ [][NextQuery]_vars

\* confidences a caller passes: log_event takes any f64, also one above 1.0
ScoreConfidenceInputs == {Rat(1, 2), Rat(9, 10), Rat(3, 2)}
ScoreCalls ==
    {[ReferenceCall EXCEPT !.agent = a, !.confidence = x] :
        a \in AgentInputs, x \in ScoreConfidenceInputs}

\* the calls explored: at most MaxTrace events in session s
WithinTrace(s) == s \in DOMAIN sess /\ Len(sess[s].trace) < MaxTrace

NextScore ==
    \/ New(1)
    \/ \E c \in ScoreCalls : WithinTrace(1) /\ LogEvent(1, c)

\* one session with a trace longer than the window of the transition score
SpecScore == Init /\ [][NextScore]_vars

\* events whose input or output may be the empty string
FoldCalls ==
    {[ReferenceCall EXCEPT !.agent = a, !.input = i, !.output = o] :
        a \in AgentInputs, i \in {"", "a"}, o \in {"", "c"}}

NextFold ==
    \/ Tick
    \/ New(1)
    \/ \E c \in FoldCalls : WithinEvents /\ LogEvent(1, c)
    \/ \E order \in UNION {IterationOrders(S) : S \in SUBSET AgentInputs} :
          FoldMemory(1, order)
    \/ EmitProvenance(1)

\* one session folded, and its provenance emitted, between its events
SpecFold == Init /\ [][NextFold]_vars

\* a profile carried over from earlier sessions, given to with_profile
ProfileInputs ==
    {[contributor_id |-> "carol",
      preferred_languages |-> <<"fr">>,
      expertise_domains |-> <<"physics">>,
      reasoning_style |-> "creative",
      total_traces |-> 2,
      avg_trace_depth |-> Rat(3, 2)]}

\* the calls explored: at most MaxUpdates update_profile calls on session s
WithinUpdates(s) == Len(profiled[s]) < MaxUpdates

\* the iteration orders of the language counts of the traces explored
LanguageOrders(languages) == UNION {IterationOrders(S) : S \in SUBSET languages}

NextProfile ==
    \/ New(1)
    \/ \E profile \in ProfileInputs : WithProfile(1, profile)
    \/ \E c \in {x \in CallInputs : x.metadata = EmptyMap} : WithinEvents /\ LogEvent(1, c)
    \/ \E c \in CallInputs : WithinEvents /\ LogEventWithMetadata(1, c)
    \/ \E order \in LanguageOrders(LanguageInputs) : WithinUpdates(1) /\ UpdateProfile(1, order)

\* one session whose profile is updated between its events
SpecProfile == Init /\ [][NextProfile]_vars

NextIds ==
    \/ Tick
    \/ \E s \in SessionIds : New(s)
    \/ \E s \in SessionIds, profile \in ProfileInputs : WithProfile(s, profile)
    \/ \E s \in SessionIds : EmitProvenance(s)

\* two sessions constructed by either constructor while the clock advances
SpecIds == Init /\ [][NextIds]_vars

\* submissions of two contributors
StoredRankProvenanceInputs ==
    {p \in RankProvenanceInputs : p.contributor_id \in ContributorInputs}

NextStoredRanks ==
    \/ \E p \in StoredRankProvenanceInputs : AddEntry(p, LanguagesOf(p))
    \/ \E criteria \in RankingCriteria : UpdateRanks(criteria)
    \/ RankByDepth
    \/ RankByUniqueness
    \/ \E n \in TopInputs, criteria \in RankingCriteria : GetTopN(n, criteria)
    \/ \E criteria \in RankingCriteria : ExportJson(criteria)

\* the leaderboard ranked, re-ranked and read under every criterion
SpecStoredRanks == Init /\ [][NextStoredRanks]_vars

\* events at, and above, the confidence threshold of the insights, in one
\* language and in a second one
InsightCalls ==
    {ReferenceCall,
     [ReferenceCall EXCEPT !.agent = Meta, !.confidence = Rat(8, 10)],
     [ReferenceCall EXCEPT !.agent = Meta, !.language = "id"]}

\* the calls explored: at most MaxInsightTrace events in session s
WithinInsightTrace(s) == s \in DOMAIN sess /\ Len(sess[s].trace) < MaxInsightTrace

NextInsight ==
    \/ New(1)
    \/ \E c \in InsightCalls : WithinInsightTrace(1) /\ LogEvent(1, c)
    \/ \E order \in UNION {IterationOrders(S) : S \in SUBSET AgentInputs} :
          FoldMemory(1, order)

\* one session long enough for more than five transitions, folded
SpecInsight == Init /\ [][NextInsight]_vars

\* events in one of four languages
PreferredLanguageInputs == {"en", "id", "zh", "es"}
PreferredCalls == {[ReferenceCall EXCEPT !.language = l] : l \in PreferredLanguageInputs}

\* the calls explored: update_profile called once, at any point of the session
FirstUpdate(s) == profiled[s] = <<>>

NextPreferred ==
    \/ New(1)
    \/ \E profile \in ProfileInputs : WithProfile(1, profile)
    \/ \E c \in PreferredCalls : WithinTrace(1) /\ LogEvent(1, c)
    \/ \E order \in LanguageOrders(PreferredLanguageInputs) :
          FirstUpdate(1) /\ UpdateProfile(1, order)

\* one session in more languages than the profile keeps
SpecPreferred == Init /\ [][NextPreferred]_vars


\* events of three agent kinds, logged with or without metadata
TransitionAgentInputs == {Reasoning, Meta, Synthesis}
TransitionCalls ==
    {[ReferenceCall EXCEPT !.agent = a, !.metadata = md] :
        a \in TransitionAgentInputs, md \in MetadataInputs}

NextTransitions ==
    \/ New(1)
    \/ \E c \in {x \in TransitionCalls : x.metadata = EmptyMap} :
          WithinTrace(1) /\ LogEvent(1, c)
    \/ \E c \in {x \in TransitionCalls : x.metadata # EmptyMap} :
          WithinTrace(1) /\ LogEventWithMetadata(1, c)

\* one session moving between three agent kinds
SpecTransitions == Init /\ [][NextTransitions]_vars

\* the calls explored: at most MaxEvents transitions tracked in session s
WithinTransitions(s) == s \in DOMAIN sess /\ Len(sess[s].transitions) < MaxEvents

\* events of two agent kinds, logged with or without metadata
CurrentCalls ==
    {[ReferenceCall EXCEPT !.agent = a, !.metadata = md] :
        a \in AgentInputs, md \in MetadataInputs}

\* the reason a caller of track_transition passes
ReasonInputs == {"manual"}

NextCurrent ==
    \/ New(1)
    \/ \E profile \in ProfileInputs : WithProfile(1, profile)
    \/ \E c \in {x \in CurrentCalls : x.metadata = EmptyMap} :
          WithinEvents /\ LogEvent(1, c)
    \/ \E c \in {x \in CurrentCalls : x.metadata # EmptyMap} :
          WithinEvents /\ LogEventWithMetadata(1, c)
    \/ \E from, to \in AgentInputs, reason \in ReasonInputs :
          WithinTransitions(1) /\ CallTrackTransition(1, from, to, reason)
    \/ \E order \in LanguageOrders(LanguageInputs) :
          FirstUpdate(1) /\ UpdateProfile(1, order)

\* one session under every method that changes it
SpecCurrent == Init /\ [][NextCurrent]_vars
\* =================================================================== claims
\* the hashed fields of an event, and of a trace
TupleOf(e) == <<e.input, e.output, e.language, e.agent>>
TuplesOf(trace) == [i \in 1..Len(trace) |-> TupleOf(trace[i])]

\* adjacent positions of a trace whose agent kinds differ
DifferingPairs(trace) ==
    {i \in 1..(Len(trace) - 1) : trace[i].agent # trace[i + 1].agent}

\* C1: in every session built by log_event and log_event_with_metadata calls, the
\* number of transitions equals the number of adjacent event pairs whose agent
\* kinds differ.
C1_TransitionsCountDifferingPairs ==
    \A s \in DOMAIN sess :
        Len(sess[s].transitions) = Cardinality(DifferingPairs(sess[s].trace))

C1_Witness ==
    \E s \in DOMAIN sess :
        /\ Len(sess[s].trace) = 2
        /\ sess[s].trace[1].agent # sess[s].trace[2].agent
        /\ Len(sess[s].transitions) = 1

\* the submissions made for contributor c, in call order
SubmissionsOf(c) == SelectSeq(submitted, LAMBDA x : x.provenance.contributor_id = c)
SubmittedIds == {submitted[i].provenance.contributor_id : i \in 1..Len(submitted)}
EntriesOf(c) == {j \in 1..Len(entries) : entries[j].contributor_id = c}

RECURSIVE SumSubmittedDepth(_)
SumSubmittedDepth(subs) ==
    IF subs = <<>> THEN 0
    ELSE Head(subs).provenance.trace_depth + SumSubmittedDepth(Tail(subs))

\* C2: every contributor submitted has an entry whose total_submissions is the
\* number N of add_entry calls for that id and whose avg_trace_depth is the sum of
\* the N submitted trace depths divided by N.
C2_CountAndMeanOfAllSubmissions ==
    \A c \in SubmittedIds :
        /\ EntriesOf(c) # {}
        /\ \A j \in EntriesOf(c) :
              LET subs == SubmissionsOf(c)
              IN  /\ entries[j].total_submissions = Len(subs)
                  /\ entries[j].avg_trace_depth.n * Len(subs)
                        = SumSubmittedDepth(subs) * entries[j].avg_trace_depth.d

C2_Witness ==
    \E j \in 1..Len(entries) :
        /\ entries[j].total_submissions = 3
        /\ entries[j].avg_trace_depth.d = 3
        /\ C2_CountAndMeanOfAllSubmissions

\* C3: two sessions whose traces carry the same ordered (input, output, language,
\* agent kind) tuples get the same trace_hash from emit_provenance.
C3_SameTuplesSameHash ==
    \A s1 \in DOMAIN sess, s2 \in DOMAIN sess :
        (/\ emitted[s1] # <<>>
         /\ emitted[s2] # <<>>
         /\ TuplesOf(sess[s1].trace) = TuplesOf(sess[s2].trace))
        => emitted[s1][1].trace_hash = emitted[s2][1].trace_hash

C3_Witness ==
    \E s1 \in DOMAIN sess, s2 \in DOMAIN sess :
        /\ emitted[s1] # <<>>
        /\ emitted[s2] # <<>>
        /\ sess[s1].trace # <<>>
        /\ TuplesOf(sess[s1].trace) = TuplesOf(sess[s2].trace)
        /\ sess[s1].contributor_id # sess[s2].contributor_id
        /\ sess[s1].backend_used # sess[s2].backend_used
        /\ sess[s1].session_id # sess[s2].session_id
        /\ sess[s1].trace[1].confidence # sess[s2].trace[1].confidence
        /\ sess[s1].trace[1].timestamp # sess[s2].trace[1].timestamp
        /\ emitted[s1][1].timestamp # emitted[s2][1].timestamp
        /\ emitted[s1][1].trace_hash = emitted[s2][1].trace_hash

\* values a hashed string field may be replaced by
ReplacementStrings == {"", "a", "ac", "c", "cc", "en", "id", "Meta", "enReasoning"}

\* the events that differ from e in exactly one hashed field
SingleFieldVariants(e) ==
    {[e EXCEPT !.input = v] : v \in ReplacementStrings \ {e.input}}
    \cup {[e EXCEPT !.output = v] : v \in ReplacementStrings \ {e.output}}
    \cup {[e EXCEPT !.language = v] : v \in ReplacementStrings \ {e.language}}
    \cup {[e EXCEPT !.agent = v] : v \in AgentType \ {e.agent}}

\* C4: with the digest collision-free, replacing exactly one hashed field of exactly
\* one event of a trace by a different value gives a trace whose hash differs from
\* the trace_hash emit_provenance returned.
C4_SingleFieldChangeChangesHash ==
    \A s \in DOMAIN sess :
        emitted[s] # <<>> =>
            \A i \in 1..Len(sess[s].trace) :
                \A e \in SingleFieldVariants(sess[s].trace[i]) :
                    Sha256Hex(HashedBytes([sess[s].trace EXCEPT ![i] = e]))
                        # emitted[s][1].trace_hash

C4_Witness ==
    \E s \in DOMAIN sess :
        /\ emitted[s] # <<>>
        /\ Len(sess[s].trace) = 2
        /\ sess[s].trace[1] # sess[s].trace[2]
        /\ C4_SingleFieldChangeChangesHash

\* the trace with the events at positions i and j exchanged
Swapped(trace, i, j) == [trace EXCEPT ![i] = trace[j], ![j] = trace[i]]

\* C5: with the digest collision-free, exchanging two events of a trace whose hashed
\* tuples differ changes the trace_hash.
C5_SwapOfDistinctEventsChangesHash ==
    \A s \in DOMAIN sess :
        emitted[s] # <<>> =>
            \A i \in 1..Len(sess[s].trace), j \in 1..Len(sess[s].trace) :
                TupleOf(sess[s].trace[i]) # TupleOf(sess[s].trace[j])
                => Sha256Hex(HashedBytes(Swapped(sess[s].trace, i, j)))
                      # emitted[s][1].trace_hash

\* C6: with the digest collision-free, two traces whose tuple sequences are not
\* identical have different trace_hash values.
C6_DistinctTuplesDistinctHash ==
    \A s1 \in DOMAIN sess, s2 \in DOMAIN sess :
        (/\ emitted[s1] # <<>>
         /\ emitted[s2] # <<>>
         /\ TuplesOf(sess[s1].trace) # TuplesOf(sess[s2].trace))
        => emitted[s1][1].trace_hash # emitted[s2][1].trace_hash

\* C7: the leaderboard holds exactly one entry per distinct contributor id ever
\* submitted, and total_contributors() is the number of distinct ids.
C7_OneEntryPerContributor ==
    /\ \A c \in SubmittedIds : Cardinality(EntriesOf(c)) = 1
    /\ \A j \in 1..Len(entries) : entries[j].contributor_id \in SubmittedIds
    /\ TotalContributors = Cardinality(SubmittedIds)

C7_Witness ==
    /\ Len(submitted) = 3
    /\ submitted[1].provenance.contributor_id = submitted[3].provenance.contributor_id
    /\ submitted[1].provenance.contributor_id # submitted[2].provenance.contributor_id
    /\ TotalContributors = 2

\* the largest trace depth, and the largest uniqueness score, among submissions
MaxSubmittedDepth(subs) ==
    CHOOSE d \in {subs[i].provenance.trace_depth : i \in 1..Len(subs)} :
        \A i \in 1..Len(subs) : subs[i].provenance.trace_depth <= d
MaxSubmittedUniqueness(subs) ==
    CHOOSE u \in {subs[i].provenance.uniqueness_score : i \in 1..Len(subs)} :
        \A i \in 1..Len(subs) : ~RatLess(u, subs[i].provenance.uniqueness_score)

MaximaOfSubmissions ==
    \A j \in 1..Len(entries) :
        LET subs == SubmissionsOf(entries[j].contributor_id)
        IN  /\ entries[j].trace_depth = MaxSubmittedDepth(subs)
            /\ entries[j].uniqueness_score = MaxSubmittedUniqueness(subs)

NeverDecreasing ==
    \A j \in 1..Len(entries) : \A k \in 1..Len(entries') :
        entries'[k].contributor_id = entries[j].contributor_id
        => /\ entries'[k].trace_depth >= entries[j].trace_depth
           /\ ~RatLess(entries'[k].uniqueness_score, entries[j].uniqueness_score)

\* C8: every entry's trace_depth is the maximum trace depth, and its
\* uniqueness_score the maximum uniqueness score, over all of that contributor's
\* submissions, and no step decreases either value.
C8_DepthAndUniquenessAreMaxima == []MaximaOfSubmissions /\ [][NeverDecreasing]_vars

C8_Witness ==
    \E j \in 1..Len(entries) :
        LET subs == SubmissionsOf(entries[j].contributor_id)
        IN  /\ Len(subs) = 3
            /\ subs[3].provenance.trace_depth < entries[j].trace_depth
            /\ RatLess(subs[3].provenance.uniqueness_score, entries[j].uniqueness_score)
            /\ \E i \in 1..2 :
                  /\ subs[i].provenance.trace_depth = entries[j].trace_depth
                  /\ RatLess(subs[i].provenance.uniqueness_score,
                             entries[j].uniqueness_score)
            /\ MaximaOfSubmissions

\* C9: every entry's provenance_hash, backend_used and last_updated are the
\* trace_hash, backend and timestamp of that contributor's latest submission.
C9_LastWriteWins ==
    \A j \in 1..Len(entries) :
        LET subs == SubmissionsOf(entries[j].contributor_id)
            last == subs[Len(subs)].provenance
        IN  /\ entries[j].provenance_hash = last.trace_hash
            /\ entries[j].backend_used = last.backend_used
            /\ entries[j].last_updated = last.timestamp

C9_Witness ==
    \E j \in 1..Len(entries) :
        LET subs == SubmissionsOf(entries[j].contributor_id)
        IN  /\ Len(subs) >= 2
            /\ subs[Len(subs)].provenance.timestamp < subs[1].provenance.timestamp
            /\ subs[Len(subs)].provenance.trace_depth < subs[1].provenance.trace_depth
            /\ subs[Len(subs)].provenance.trace_hash # subs[1].provenance.trace_hash
            /\ entries[j].last_updated = subs[Len(subs)].provenance.timestamp
            /\ entries[j].provenance_hash = subs[Len(subs)].provenance.trace_hash

\* the language tags of the submissions, in the order they were passed
RECURSIVE AllLanguages(_)
AllLanguages(subs) ==
    IF subs = <<>> THEN <<>> ELSE Head(subs).languages \o AllLanguages(Tail(subs))

\* a sequence cut down to the first occurrence of each element
RECURSIVE FirstOccurrences(_)
FirstOccurrences(seq) ==
    IF seq = <<>> THEN <<>>
    ELSE LET front == SubSeq(seq, 1, Len(seq) - 1)
             x == seq[Len(seq)]
         IN  IF \E k \in 1..Len(front) : front[k] = x
             THEN FirstOccurrences(front)
             ELSE Append(FirstOccurrences(front), x)

\* C10: every entry's languages_used is the union of all language tags passed for
\* that contributor, each tag once, in order of first appearance, the list of the
\* first submission included.
C10_LanguagesAreFirstSeenUnion ==
    \A j \in 1..Len(entries) :
        entries[j].languages_used
            = FirstOccurrences(AllLanguages(SubmissionsOf(entries[j].contributor_id)))


\* the ranks of es are 1..Len(es), each held by one entry
RanksArePermutation(es) ==
    /\ \A i \in 1..Len(es) : es[i].rank \in 1..Len(es)
    /\ \A i, j \in 1..Len(es) : es[i].rank = es[j].rank => i = j

\* an entry of better rank has no smaller combined score
RanksFollowCombinedScore(es) ==
    \A i, j \in 1..Len(es) :
        es[i].rank < es[j].rank =>
            ~RatLess(ComputeCombinedScore(es[i]), ComputeCombinedScore(es[j]))

\* C11: in the state an add_entry call leaves, the ranks of the entries are a
\* permutation of 1..n for n entries, and they follow the combined score: rank 1
\* is the highest score.
C11_RanksAfterAddEntry ==
    [][Len(submitted') > Len(submitted) =>
          RanksArePermutation(entries') /\ RanksFollowCombinedScore(entries')]_vars

\* three entries whose ranks 1, 2, 3 are not their stored order
C11_Witness ==
    /\ Len(entries) = 3
    /\ Len(submitted) = 3
    /\ entries[1].rank = 3
    /\ entries[2].rank = 1
    /\ RanksArePermutation(entries)
    /\ RanksFollowCombinedScore(entries)
    /\ RatLess(ComputeCombinedScore(entries[1]), ComputeCombinedScore(entries[3]))

\* seq holds every entry of the leaderboard, each exactly once
EveryEntryOnce(seq) ==
    /\ Len(seq) = Len(entries)
    /\ \A j \in 1..Len(entries) :
          Cardinality({i \in 1..Len(seq) : seq[i] = entries[j]}) = 1

\* C12: rank_by_depth returns every entry exactly once, in descending trace depth
\* and, among equal depths, in descending uniqueness score: a deeper entry always
\* precedes a shallower one, whatever their uniqueness.
C12_RankByDepthOrder ==
    result.op = "rank_by_depth" =>
        /\ EveryEntryOnce(result.value)
        /\ \A i, j \in 1..Len(result.value) :
              LET a == result.value[i]
                  b == result.value[j]
              IN  /\ a.trace_depth > b.trace_depth => i < j
                  /\ (a.trace_depth = b.trace_depth
                        /\ RatLess(b.uniqueness_score, a.uniqueness_score)) => i < j

\* a ranking of three entries returned in another order than the stored one, a
\* deeper entry of lower uniqueness ahead of a shallower one of higher uniqueness
C12_Witness ==
    /\ result.op = "rank_by_depth"
    /\ Len(result.value) = 3
    /\ result.value # entries
    /\ \E i \in 1..2 :
          /\ result.value[i].trace_depth > result.value[i + 1].trace_depth
          /\ RatLess(result.value[i].uniqueness_score, result.value[i + 1].uniqueness_score)

\* C13: rank_by_uniqueness returns every entry exactly once, in descending
\* uniqueness score and, among equal scores, in descending trace depth.
C13_RankByUniquenessOrder ==
    result.op = "rank_by_uniqueness" =>
        /\ EveryEntryOnce(result.value)
        /\ \A i, j \in 1..Len(result.value) :
              LET a == result.value[i]
                  b == result.value[j]
              IN  /\ RatLess(b.uniqueness_score, a.uniqueness_score) => i < j
                  /\ (a.uniqueness_score = b.uniqueness_score
                        /\ a.trace_depth > b.trace_depth) => i < j

\* two entries of one uniqueness score stored shallower first, returned deeper first
C13_Witness ==
    /\ result.op = "rank_by_uniqueness"
    /\ Len(entries) = 2
    /\ entries[1].uniqueness_score = entries[2].uniqueness_score
    /\ entries[1].trace_depth < entries[2].trace_depth
    /\ result.value = <<entries[2], entries[1]>>

\* C14: for every n and every criterion, get_top_n(n, criterion) returns the first
\* min(n, number of entries) entries of the full ranking under that criterion, in
\* the order of that ranking.
C14_TopNIsPrefixOfRanking ==
    result.op = "get_top_n" =>
        LET full == Ranked(entries, result.criteria)
            k == IF result.n <= Len(entries) THEN result.n ELSE Len(entries)
        IN  /\ Len(result.value) = k
            /\ \A i \in 1..k : result.value[i] = full[i]

\* two of three entries returned, and not the two stored first
C14_Witness ==
    /\ result.op = "get_top_n"
    /\ result.n = 2
    /\ Len(entries) = 3
    /\ Len(result.value) = 2
    /\ result.value # SubSeq(entries, 1, 2)

\* the provenance logs of a sequence of submissions
ProvenancesOf(subs) == [i \in 1..Len(subs) |-> subs[i].provenance]

HistoryAsSubmitted ==
    result.op = "get_contributor_history" =>
        IF result.contributor_id \in SubmittedIds
        THEN result.value = <<ProvenancesOf(SubmissionsOf(result.contributor_id))>>
        ELSE result.value = <<>>

\* C15: get_contributor_history(id) returns the provenance records submitted for
\* id, all of them in submission order, when id has submitted, and nothing when it
\* has not; the call changes neither the entries nor the histories.
C15_HistoryInSubmissionOrder ==
    /\ []HistoryAsSubmitted
    /\ [][result'.op = "get_contributor_history" =>
            entries' = entries /\ contributor_history' = contributor_history]_vars

\* a history of two different records returned while another contributor has one
C15_Witness ==
    /\ result.op = "get_contributor_history"
    /\ Len(submitted) = 3
    /\ Len(entries) = 2
    /\ result.value # <<>>
    /\ Len(result.value[1]) = 2
    /\ result.value[1][1] # result.value[1][2]
    /\ submitted[2].provenance.contributor_id # result.contributor_id

\* the position of the i-th adjacent pair of differing agent kinds: the transition
\* i was tracked when the event after that position was logged
NthPair(trace, i) ==
    CHOOSE p \in DifferingPairs(trace) :
        Cardinality({q \in DifferingPairs(trace) : q <= p}) = i

\* the sum of the confidences of the events lo..hi
RECURSIVE WindowSum(_, _, _)
WindowSum(trace, lo, hi) ==
    IF lo > hi THEN FromInt(0)
    ELSE RatAdd(trace[lo].confidence, WindowSum(trace, lo + 1, hi))

\* the mean confidence of the last min(3, k) of the first k events
MeanOfLastThree(trace, k) ==
    LET w == IF k < 3 THEN k ELSE 3
    IN  RatDivInt(WindowSum(trace, k - w + 1, k), w)

\* C16: every transition log_event creates carries the arithmetic mean of the
\* confidences of the last min(3, k) events of the trace as it was before the new
\* event was appended, k being its length then; the confidence of the event being
\* logged does not enter; a transition tracked on an empty trace would score 1.0.
C16_TransitionScoreIsRecentMean ==
    \A s \in DOMAIN sess :
        /\ Len(sess[s].transitions) = Cardinality(DifferingPairs(sess[s].trace))
        /\ \A i \in 1..Len(sess[s].transitions) :
              sess[s].transitions[i].transition_score =
                  MeanOfLastThree(sess[s].trace, NthPair(sess[s].trace, i))
        /\ sess[s].trace = <<>> => ComputeTransitionScore(sess[s]) = FromInt(1)

\* the fifth event changes the agent after four events of one agent whose first
\* confidence differs from the later ones, as the fifth event's does
C16_Witness ==
    /\ 1 \in DOMAIN sess
    /\ Len(sess[1].trace) = 5
    /\ DifferingPairs(sess[1].trace) = {4}
    /\ Len(sess[1].transitions) = 1
    /\ sess[1].trace[1].confidence # sess[1].trace[2].confidence
    /\ sess[1].trace[5].confidence # sess[1].trace[4].confidence
    /\ sess[1].transitions[1].transition_score = MeanOfLastThree(sess[1].trace, 4)
    /\ sess[1].transitions[1].transition_score #
          RatDivInt(WindowSum(sess[1].trace, 1, 4), 4)

\* x lies in [0, 1]
InUnitInterval(x) == ~RatLess(x, FromInt(0)) /\ ~RatLess(FromInt(1), x)

\* C17 as stated: every transition of a session has a transition_score within
\* [0, 1], whatever confidences the log_event calls passed.
C17_TransitionScoreInUnitInterval ==
    \A s \in DOMAIN sess :
        \A i \in 1..Len(sess[s].transitions) :
            InUnitInterval(sess[s].transitions[i].transition_score)

\* C17 amended: a transition's score is within [0, 1] when every confidence logged
\* before it is within [0, 1].
C17_ScoreInUnitIntervalForUnitConfidences ==
    \A s \in DOMAIN sess :
        \A i \in 1..Len(sess[s].transitions) :
            (\A k \in 1..NthPair(sess[s].trace, i) :
                InUnitInterval(sess[s].trace[k].confidence))
            => InUnitInterval(sess[s].transitions[i].transition_score)

\* two transitions scored from confidences within [0, 1], then an event above 1.0
C17_Witness ==
    /\ 1 \in DOMAIN sess
    /\ Len(sess[1].trace) = 4
    /\ Len(sess[1].transitions) = 2
    /\ \A k \in 1..3 : InUnitInterval(sess[1].trace[k].confidence)
    /\ ~InUnitInterval(sess[1].trace[4].confidence)
    /\ \A i \in 1..2 : InUnitInterval(sess[1].transitions[i].transition_score)
    /\ sess[1].transitions[1].transition_score # sess[1].transitions[2].transition_score

\* the sum over the events of input length + output length
RECURSIVE SumOfLengths(_)
SumOfLengths(trace) ==
    IF trace = <<>> THEN 0
    ELSE Len(trace[1].input) + Len(trace[1].output) + SumOfLengths(Tail(trace))

\* ratio is the quotient of the summary length by a positive total
IsQuotient(ratio, summary, total) ==
    /\ total > 0
    /\ RatMul(ratio, FromInt(total)) = FromInt(Len(summary))
    /\ RatLess(FromInt(0), ratio)

\* C18 as stated: the compression_ratio fold_memory returns is exactly 1.0 when the
\* trace is empty; for every non-empty trace it is the summary length divided by
\* the sum over the events of input length + output length, positive and finite.
C18_CompressionRatioByTrace ==
    result.op = "fold_memory" =>
        LET trace == sess[result.session].trace
        IN  IF trace = <<>>
            THEN result.value.compression_ratio = FromInt(1)
            ELSE IsQuotient(result.value.compression_ratio, result.value.summary,
                            SumOfLengths(trace))

\* C18 amended: the compression_ratio is exactly 1.0 when the sum over the events
\* of input length + output length is 0, as it is for the empty trace and for a
\* trace of empty strings; otherwise it is the summary length divided by that sum,
\* positive and finite.
C18_CompressionRatioByTotalLength ==
    result.op = "fold_memory" =>
        LET trace == sess[result.session].trace
        IN  IF SumOfLengths(trace) = 0
            THEN result.value.compression_ratio = FromInt(1)
            ELSE IsQuotient(result.value.compression_ratio, result.value.summary,
                            SumOfLengths(trace))

\* a trace of two events of empty input and output folded with ratio 1.0
C18_Witness ==
    /\ result.op = "fold_memory"
    /\ Len(sess[result.session].trace) = 2
    /\ SumOfLengths(sess[result.session].trace) = 0
    /\ result.value.compression_ratio = FromInt(1)
    /\ Len(result.value.summary) > 0

\* the distinct agent kinds and the distinct language tags of a trace
DistinctAgents(trace) == Cardinality({trace[i].agent : i \in 1..Len(trace)})
DistinctLanguages(trace) == Cardinality({trace[i].language : i \in 1..Len(trace)})

\* the average the score is specified as, the density of an empty trace taken as 0.0
AverageOfDiversities(m) ==
    LET density == IF m.trace = <<>> THEN FromInt(0)
                   ELSE RatMin(FromInt(1), Rat(Len(m.transitions), Len(m.trace)))
    IN  RatDivInt(RatAdd(RatAdd(Rat(DistinctAgents(m.trace), 8),
                                Rat(DistinctLanguages(m.trace), 5)),
                         density), 3)

\* C19: the uniqueness score emit_provenance returns is the average of distinct
\* agent kinds / 8, distinct language tags / 5 and min(1, transitions / trace
\* length), the last term taken as 0.0 for an empty trace: a session with no
\* events gets the score 0.
C19_UniquenessIsAverageOfDiversities ==
    \A s \in DOMAIN sess :
        emitted[s] # <<>> =>
            emitted[s][1].uniqueness_score = AverageOfDiversities(sess[s])

RECURSIVE SumOfInts(_)
SumOfInts(seq) == IF seq = <<>> THEN 0 ELSE Head(seq) + SumOfInts(Tail(seq))

\* the step is an update_profile call on session s
IsProfileUpdate(s) ==
    /\ s \in DOMAIN sess
    /\ Len(profiled'[s]) = Len(profiled[s]) + 1

\* the profile of s after the step follows the incremental mean
IncrementalMean(s) ==
    LET old == sess[s].profile
        new == sess'[s].profile
        n == new.total_traces
    IN  /\ n = old.total_traces + 1
        /\ RatMul(new.avg_trace_depth, FromInt(n)) =
              RatAdd(RatMul(old.avg_trace_depth, FromInt(n - 1)),
                     FromInt(Len(sess[s].trace)))

\* a profile that started at no traces averages the lengths seen at its updates
MeanOfObservedLengths ==
    \A s \in DOMAIN sess :
        (profiled[s] # <<>> /\ sess[s].profile.total_traces = Len(profiled[s])) =>
            RatMul(sess[s].profile.avg_trace_depth, FromInt(Len(profiled[s]))) =
                FromInt(SumOfInts(profiled[s]))

\* C21: each update_profile call increases profile.total_traces by exactly 1 and
\* sets profile.avg_trace_depth to (old_avg * (n - 1) + trace length) / n, n being
\* the new total_traces; on a session created with new(), after k calls the
\* average is the arithmetic mean of the trace lengths at those k calls.
C21_ProfileAverageIsIncrementalMean ==
    /\ []MeanOfObservedLengths
    /\ [][\A s \in SessionIds : IsProfileUpdate(s) => IncrementalMean(s)]_vars

\* three updates of a new() session at the trace lengths 0, 1 and 2
C21_Witness ==
    /\ 1 \in DOMAIN sess
    /\ profiled[1] = <<0, 1, 2>>
    /\ sess[1].profile.total_traces = 3
    /\ sess[1].profile.avg_trace_depth = FromInt(1)

\* the step is a fold_memory call, or an emit_provenance call, on session s
IsFoldMemory(s) ==
    /\ result'.op = "fold_memory"
    /\ result'.session = s
    /\ result' # result
IsEmitProvenance(s) == emitted'[s] # <<>> /\ emitted'[s] # emitted[s]

\* C22: fold_memory and emit_provenance never change the session: after either
\* call the trace, transitions, current agent, profile, contributor id, backend id
\* and session id are what they were before it.
C22_FoldAndEmitLeaveSession ==
    [][\A s \in SessionIds :
          (IsFoldMemory(s) \/ IsEmitProvenance(s)) =>
              /\ s \in DOMAIN sess
              /\ sess' = sess]_vars

\* a session of two events and a transition, folded and emitted, still in place
C22_Witness ==
    /\ 1 \in DOMAIN sess
    /\ result.op = "fold_memory"
    /\ emitted[1] # <<>>
    /\ Len(sess[1].trace) = 2
    /\ Len(sess[1].transitions) = 1
    /\ result.value.folded_trace = sess[1].trace
    /\ emitted[1][1].transitions = sess[1].transitions

\* C23: two fold_memory calls on one session with no log_event between them return
\* the same summary text, compression ratio, insight list and language histogram.
C23_FoldMemoryRepeatable ==
    [][(result.op = "fold_memory" /\ result'.op = "fold_memory"
          /\ result.session = result'.session) =>
          /\ result'.value.summary = result.value.summary
          /\ result'.value.compression_ratio = result.value.compression_ratio
          /\ result'.value.key_insights = result.value.key_insights
          /\ result'.value.language_distribution = result.value.language_distribution]_vars

\* C24: every session constructed, by new or by with_profile, has a session_id
\* different from that of every other session constructed, also of one
\* constructed at the same clock reading.
C24_SessionIdsDistinct ==
    \A s1, s2 \in DOMAIN sess :
        s1 # s2 => sess[s1].session_id # sess[s2].session_id

\* seq is the start of longer
IsPrefix(seq, longer) ==
    /\ Len(seq) <= Len(longer)
    /\ SubSeq(longer, 1, Len(seq)) = seq

\* the last event of the trace of s after the step carries the arguments of call c
LastEventIs(s, c, metadata) ==
    LET e == sess'[s].trace[Len(sess'[s].trace)]
    IN  /\ e.agent = c.agent
        /\ e.input = c.input
        /\ e.output = c.output
        /\ e.language = c.language
        /\ e.confidence = c.confidence
        /\ e.metadata = metadata

\* C25: events are immutable once appended: each log_event and
\* log_event_with_metadata call lengthens the trace by exactly 1, puts the new
\* event last and leaves every earlier event and every recorded transition as it
\* was; update_profile changes neither trace nor transitions nor current agent.
C25_AppendOnlyTrace ==
    [][\A s \in DOMAIN sess :
          /\ IsPrefix(sess[s].trace, sess'[s].trace)
          /\ IsPrefix(sess[s].transitions, sess'[s].transitions)
          /\ \A c \in CallInputs :
                /\ LogEvent(s, c) =>
                      /\ Len(sess'[s].trace) = Len(sess[s].trace) + 1
                      /\ LastEventIs(s, c, EmptyMap)
                /\ LogEventWithMetadata(s, c) =>
                      /\ Len(sess'[s].trace) = Len(sess[s].trace) + 1
                      /\ LastEventIs(s, c, c.metadata)
          /\ IsProfileUpdate(s) =>
                /\ sess'[s].trace = sess[s].trace
                /\ sess'[s].transitions = sess[s].transitions
                /\ sess'[s].current_agent = sess[s].current_agent]_vars

\* two different events with a transition, the profile updated after the first
C25_Witness ==
    /\ 1 \in DOMAIN sess
    /\ Len(sess[1].trace) = 2
    /\ sess[1].trace[1] # sess[1].trace[2]
    /\ sess[1].trace[2].metadata # EmptyMap
    /\ Len(sess[1].transitions) = 1
    /\ profiled[1] = <<1>>
    /\ sess[1].profile.total_traces = 1

\* the ranks of es are 1..n and no entry sorts before one of better rank under c
RanksUnder(es, c) ==
    /\ RanksArePermutation(es)
    /\ \A i, j \in 1..Len(es) : es[i].rank < es[j].rank => ~SortsBefore(c, es[j], es[i])

\* the stored ranks after the step are not the stored ranks before it
RanksChange ==
    \/ Len(entries') # Len(entries)
    \/ \E j \in 1..Len(entries) : entries'[j].rank # entries[j].rank

\* C26: stored ranks change only through add_entry and update_ranks: a ranking
\* query (rank_by_*, get_top_n, export_json) under any criterion leaves the entries
\* as they are; add_entry leaves the Combined ranks, and they stay until
\* update_ranks(c), which leaves the ranks under c.
C26_RanksChangeOnlyByAddAndUpdate ==
    [][/\ (result' # NoResult /\ result' # result) => entries' = entries
       /\ RanksChange =>
             \/ Len(submitted') > Len(submitted)
             \/ \E c \in RankingCriteria : UpdateRanks(c)
       /\ Len(submitted') > Len(submitted) => RanksUnder(entries', Combined)
       /\ \A c \in RankingCriteria : UpdateRanks(c) => RanksUnder(entries', c)]_vars

\* ranks stored by update_ranks(TraceDepth), not the Combined ones, still in place
\* after a query under another criterion
C26_Witness ==
    /\ Len(entries) = 2
    /\ result.op = "get_top_n"
    /\ result.criteria = UniquenessScore
    /\ result.n = 2
    /\ RanksUnder(entries, TraceDepth)
    /\ ~RanksUnder(entries, Combined)
    /\ ~RanksUnder(entries, UniquenessScore)

\* the session m after log_event, and after log_event_with_metadata, of call c
AfterLogEvent(m, c) ==
    LogEventOn(m, c.agent, c.input, c.output, c.language, c.confidence, clock)
AfterLogEventWithMetadata(m, c) ==
    LogEventWithMetadataOn(m, c.agent, c.input, c.output, c.language, c.confidence,
                           c.metadata, clock)

\* the two sessions differ in the metadata of their last event at most, which is
\* empty in plain and the given map in carrying
SameButMetadata(plain, carrying, metadata) ==
    LET n == Len(plain.trace)
    IN  /\ Len(carrying.trace) = n
        /\ SubSeq(carrying.trace, 1, n - 1) = SubSeq(plain.trace, 1, n - 1)
        /\ plain.trace[n].metadata = EmptyMap
        /\ carrying.trace[n].metadata = metadata
        /\ [carrying.trace[n] EXCEPT !.metadata = EmptyMap] = plain.trace[n]
        /\ carrying.transitions = plain.transitions
        /\ carrying.current_agent = plain.current_agent
        /\ [carrying EXCEPT !.trace = plain.trace] = plain

\* C27: in every session state log_event_with_metadata does what log_event does
\* for the same agent, input, output, language and confidence: the same trace
\* length, transitions and current agent, the appended events differing in their
\* metadata map only, which is empty for log_event.
C27_MetadataVariantEquivalent ==
    \A s \in DOMAIN sess : \A c \in CallInputs :
        /\ Len(AfterLogEvent(sess[s], c).trace) = Len(sess[s].trace) + 1
        /\ SameButMetadata(AfterLogEvent(sess[s], c),
                           AfterLogEventWithMetadata(sess[s], c), c.metadata)

\* a session whose next call, with a metadata map, changes the agent: both
\* methods record the transition
C27_Witness ==
    /\ 1 \in DOMAIN sess
    /\ Len(sess[1].trace) = 1
    /\ \E c \in CallInputs :
          /\ c.metadata # EmptyMap
          /\ c.agent # sess[1].current_agent
          /\ Len(AfterLogEventWithMetadata(sess[1], c).transitions) = 1
          /\ Len(AfterLogEvent(sess[1], c).transitions) = 1
          /\ AfterLogEventWithMetadata(sess[1], c) # AfterLogEvent(sess[1], c)

\* the events of confidence strictly above 0.8
HighConfidence(trace) ==
    Cardinality({i \in 1..Len(trace) : RatLess(Rat(8, 10), trace[i].confidence)})

\* the three insights, each present when its trigger holds
InsightsOf(m) ==
    LET n == HighConfidence(m.trace)
        k == DistinctLanguages(m.trace)
        t == Len(m.transitions)
    IN  (IF n > 0 THEN <<ToString(n) \o " high-confidence reasoning steps">> ELSE <<>>)
        \o (IF k > 1
            THEN <<"Multilingual reasoning across " \o ToString(k) \o " languages">>
            ELSE <<>>)
        \o (IF t > 5
            THEN <<"Complex reasoning with " \o ToString(t) \o " agent transitions">>
            ELSE <<>>)

\* C28: fold_memory's key_insights holds, in this order and nothing else: the
\* high-confidence insight for the n events of confidence strictly above 0.8, iff
\* n > 0; the multilingual insight for the k distinct language tags, iff k > 1;
\* the complex-reasoning insight for the t transitions, iff t > 5.
C28_KeyInsightsByTrigger ==
    result.op = "fold_memory" =>
        result.value.key_insights = InsightsOf(sess[result.session])

\* exactly five transitions, one language and an event of confidence 0.8 next to
\* higher ones: the high-confidence insight alone, counting the higher ones
C28_Witness ==
    /\ result.op = "fold_memory"
    /\ Len(sess[1].transitions) = 5
    /\ DistinctLanguages(sess[1].trace) = 1
    /\ \E i \in 1..Len(sess[1].trace) : sess[1].trace[i].confidence = Rat(8, 10)
    /\ HighConfidence(sess[1].trace) = 3
    /\ result.value.key_insights = <<"3 high-confidence reasoning steps">>

RECURSIVE SumOfCounts(_, _)
SumOfCounts(dist, keys) ==
    IF keys = {} THEN 0
    ELSE LET l == CHOOSE x \in keys : TRUE
         IN  dist[l] + SumOfCounts(dist, keys \ {l})

\* C29: fold_memory's language_distribution has exactly one key per distinct
\* language tag of the trace, mapped to the number of events carrying the tag;
\* the counts sum to the trace length and the histogram of an empty trace is empty.
C29_LanguageHistogram ==
    result.op = "fold_memory" =>
        LET trace == sess[result.session].trace
            dist == result.value.language_distribution
        IN  /\ DOMAIN dist = {trace[i].language : i \in 1..Len(trace)}
            /\ \A l \in DOMAIN dist :
                  dist[l] = Cardinality({i \in 1..Len(trace) : trace[i].language = l})
            /\ SumOfCounts(dist, DOMAIN dist) = Len(trace)
            /\ trace = <<>> => DOMAIN dist = {}

\* a histogram of two tags with different counts
C29_Witness ==
    /\ result.op = "fold_memory"
    /\ DOMAIN result.value.language_distribution = {"en", "id"}
    /\ result.value.language_distribution["en"] = 3
    /\ result.value.language_distribution["id"] = 2
    /\ Len(sess[result.session].trace) = 5

\* the number of events of the trace in language l
CountOf(trace, l) == Cardinality({i \in 1..Len(trace) : trace[i].language = l})

\* the step is the update_profile call on session s, and after it the preferred
\* languages are the most used ones of the present trace
PreferredAreMostUsed(s) ==
    LET trace == sess'[s].trace
        used == {trace[i].language : i \in 1..Len(trace)}
        preferred == sess'[s].profile.preferred_languages
        kept == {preferred[i] : i \in 1..Len(preferred)}
    IN  /\ Len(preferred) = (IF Cardinality(used) < 3 THEN Cardinality(used) ELSE 3)
        /\ Cardinality(kept) = Len(preferred)
        /\ kept \subseteq used
        /\ \A i, j \in 1..Len(preferred) :
              i < j => CountOf(trace, preferred[i]) >= CountOf(trace, preferred[j])
        /\ \A inside \in kept, outside \in used \ kept :
              CountOf(trace, outside) <= CountOf(trace, inside)

\* C30: after update_profile, profile.preferred_languages holds exactly min(3,
\* number of distinct language tags of the current trace) distinct tags of that
\* trace, in non-increasing order of their event counts, and no tag left out has
\* a strictly larger count than a tag kept; languages of the earlier profile that
\* do not occur in the trace are dropped, and an empty trace gives an empty list.
C30_PreferredLanguagesAreTopThree ==
    [][\A s \in SessionIds : IsProfileUpdate(s) => PreferredAreMostUsed(s)]_vars

\* four languages in five events: the three kept lead with the one used twice,
\* and the language of the constructor's profile is not among them
C30_Witness ==
    /\ 1 \in DOMAIN sess
    /\ profiled[1] = <<5>>
    /\ Len(sess[1].trace) = 5
    /\ DistinctLanguages(sess[1].trace) = 4
    /\ Len(sess[1].profile.preferred_languages) = 3
    /\ CountOf(sess[1].trace, sess[1].profile.preferred_languages[1]) = 2
    /\ \A i \in 1..3 : sess[1].profile.preferred_languages[i] \notin {"en", "fr"}
    /\ CountOf(sess[1].trace, "en") = 1

\* the step is an emit_provenance call on session s, and the record it returns
\* describes the session as it is at the call
RecordDescribesSession(s) ==
    LET m == sess[s]
        log == emitted'[s][1]
    IN  /\ log.trace_depth = Len(m.trace)
        /\ Len(log.agent_sequence) = Len(m.trace)
        /\ \A i \in 1..Len(m.trace) : log.agent_sequence[i] = m.trace[i].agent
        /\ log.transitions = m.transitions
        /\ log.contributor_id = m.contributor_id
        /\ log.backend_used = m.backend_used

\* C31: emit_provenance returns a record whose trace_depth is the number of
\* events of the trace, whose agent_sequence lists the events' agent kinds in
\* trace order, whose transitions are the session's transitions in order, and
\* whose contributor_id and backend_used are the session's.
C31_ProvenanceDescribesSession ==
    [][\A s \in SessionIds : IsEmitProvenance(s) => RecordDescribesSession(s)]_vars

\* the record of a session of two events of different agent kinds
C31_Witness ==
    /\ 1 \in DOMAIN sess
    /\ emitted[1] # <<>>
    /\ emitted[1][1].trace_depth = 2
    /\ emitted[1][1].agent_sequence = <<Reasoning, Meta>>
    /\ Len(emitted[1][1].transitions) = 1
    /\ emitted[1][1].contributor_id = ContributorOf(1)
    /\ emitted[1][1].backend_used = BackendOf(1)

\* C32: after any sequence of log_event calls, the i-th transition goes from the
\* agent kind of the first event to that of the second event of the i-th adjacent
\* pair of the trace whose agent kinds differ; so its from_agent differs from its
\* to_agent, its reason is natural_flow, and its to_agent is the from_agent of
\* the transition after it.
C32_TransitionsFollowDifferingPairs ==
    \A s \in DOMAIN sess :
        LET trace == sess[s].trace
            transitions == sess[s].transitions
        IN  /\ Len(transitions) = Cardinality(DifferingPairs(trace))
            /\ \A i \in 1..Len(transitions) :
                  /\ transitions[i].from_agent = trace[NthPair(trace, i)].agent
                  /\ transitions[i].to_agent = trace[NthPair(trace, i) + 1].agent
                  /\ transitions[i].from_agent # transitions[i].to_agent
                  /\ transitions[i].reason = "natural_flow"
            /\ \A i \in 1..(Len(transitions) - 1) :
                  transitions[i].to_agent = transitions[i + 1].from_agent

\* five events Reasoning, Reasoning, Meta, Synthesis, Synthesis: two transitions,
\* chained through Meta, none for the first event or for the repeated kinds
C32_Witness ==
    /\ 1 \in DOMAIN sess
    /\ [i \in 1..Len(sess[1].trace) |-> sess[1].trace[i].agent]
          = <<Reasoning, Reasoning, Meta, Synthesis, Synthesis>>
    /\ Len(sess[1].transitions) = 2
    /\ sess[1].transitions[1].from_agent = Reasoning
    /\ sess[1].transitions[1].to_agent = Meta
    /\ sess[1].transitions[2].from_agent = Meta
    /\ sess[1].transitions[2].to_agent = Synthesis

\* C33: in every reachable state of a session, current_agent is none exactly
\* when the trace is empty, and otherwise it is the agent kind of the last event
\* of the trace.
C33_CurrentAgentIsLastAgent ==
    \A s \in DOMAIN sess :
        LET trace == sess[s].trace
        IN  /\ (sess[s].current_agent = None) <=> (trace = <<>>)
            /\ trace # <<>> => sess[s].current_agent = trace[Len(trace)].agent

\* a session whose second event changed the agent kind, with a transition
\* tracked by hand back to the first kind, and its profile updated
C33_Witness ==
    /\ 1 \in DOMAIN sess
    /\ Len(sess[1].trace) = 2
    /\ sess[1].trace[1].agent = Reasoning
    /\ sess[1].trace[2].agent = Meta
    /\ sess[1].current_agent = Meta
    /\ Len(sess[1].transitions) = 2
    /\ sess[1].transitions[2].reason = "manual"
    /\ sess[1].transitions[2].to_agent = Reasoning
    /\ profiled[1] # <<>>

\* the entries of contributor c in stored order, their ranks left out
StatsWithoutRank(es, c) ==
    LET own == SelectSeq(es, LAMBDA e : e.contributor_id = c)
    IN  [i \in 1..Len(own) |-> [own[i] EXCEPT !.rank = 0]]

\* every contributor the leaderboard holds before or after the step
KnownContributors ==
    {entries[i].contributor_id : i \in 1..Len(entries)}
        \cup {entries'[i].contributor_id : i \in 1..Len(entries')}
        \cup DOMAIN contributor_history \cup DOMAIN contributor_history'

\* C34: add_entry for contributor c changes only c's own data apart from ranks:
\* for every other contributor the history list and every ContributorStats field
\* but rank (depth, hash, backend, timestamp, uniqueness, submission count,
\* average depth, languages) are after the call what they were before it.
C34_AddEntryLeavesOthers ==
    [][Len(submitted') > Len(submitted) =>
          LET c == submitted'[Len(submitted')].provenance.contributor_id
          IN  \A other \in KnownContributors \ {c} :
                /\ MapGet(contributor_history', other) = MapGet(contributor_history, other)
                /\ StatsWithoutRank(entries', other) = StatsWithoutRank(entries, other)]_vars

\* the second submission, by another contributor, took rank 1 from the first
\* contributor, whose other fields are those of that first submission
C34_Witness ==
    /\ Len(submitted) = 2
    /\ Len(entries) = 2
    /\ submitted[1].provenance.contributor_id # submitted[2].provenance.contributor_id
    /\ entries[1].contributor_id = submitted[1].provenance.contributor_id
    /\ entries[1].rank = 2
    /\ entries[1] = [NewStats(submitted[1].provenance, submitted[1].languages) EXCEPT !.rank = 2]
    /\ contributor_history[entries[1].contributor_id] = <<submitted[1].provenance>>
====
